---- MODULE Spec2Model ----
(***************************************************************************)
(* Matthew's Mobile Menu (mmm.py): the menu stack, the item dispatch, the  *)
(* terminal injection and the loading of the custom menu file.             *)
(*                                                                         *)
(* Text is a sequence of one-character strings, bytes are numbers 0..255.  *)
(* Objects that the program compares or shares by reference (the menus)    *)
(* live in `heap`, a sequence indexed by object identity.                  *)
(***************************************************************************)
EXTENDS Integers, Sequences, FiniteSets, TLC

VARIABLES
    pc,                  \* position of MmmApplication.run
    menu_stack,          \* MmmState.menu_stack: identities of the pushed menus
    heap,                \* the Menu objects constructed so far, by identity
    menu,                \* run's local `menu` (NoMenu for None)
    selected_menu_item,  \* run's local `selected_menu_item`
    stdout,              \* the lines printed since the last prompt
    tty,                 \* bytes pushed into the terminal input queue (TIOCSTI)
    exit_code,           \* <<>> while the process runs, <<status>> once it ended
    exc,                 \* the exception that ended the process, or "none"
    fs,                  \* .mmm-menufile of the cwd and of each ancestor, nearest first
    cwd_entries          \* what Path('.').iterdir() yields, in the order it yields it

vars == <<pc, menu_stack, heap, menu, selected_menu_item,
          stdout, tty, exit_code, exc, fs, cwd_entries>>

env == <<fs, cwd_entries>>

-----------------------------------------------------------------------------
(* Bounds of the model *)

MaxMenus == 3        \* Menu objects constructed in one run
MaxInputLen == 2     \* characters of one line typed at the prompt
MaxFileLen == 3      \* characters of the menu file, in SpecLoad
MaxChainLen == 3     \* directories from the cwd up to the root, in SpecFind

-----------------------------------------------------------------------------
(* Text *)

Whitespace == {" ", "\t", "\n", "\r", "\f"}

DigitChars == <<"0", "1", "2", "3", "4", "5", "6", "7", "8", "9">>

IsDigit(c) == \E d \in 1..10 : DigitChars[d] = c

DigitValue(c) == (CHOOSE d \in 1..10 : DigitChars[d] = c) - 1

BoundedSeq(S, n) == UNION {[1..k -> S] : k \in 0..n}

endswith(s, c) == s # <<>> /\ s[Len(s)] = c

startswith(s, c) == s # <<>> /\ s[1] = c

\* A faulty rstrip: only newlines are removed
RECURSIVE rstrip_newline_only(_)
rstrip_newline_only(s) ==
    IF endswith(s, "\n") THEN rstrip_newline_only(SubSeq(s, 1, Len(s) - 1)) ELSE s

\* str.rstrip(): every trailing whitespace character is removed
RECURSIVE rstrip(_)
rstrip(s) ==
    IF s # <<>> /\ s[Len(s)] \in Whitespace THEN rstrip(SubSeq(s, 1, Len(s) - 1)) ELSE s

RECURSIVE lstrip(_)
lstrip(s) ==
    IF s # <<>> /\ s[1] \in Whitespace THEN lstrip(Tail(s)) ELSE s

strip(s) == rstrip(lstrip(s))

\* str(i) of a non-negative integer, as the f-string of print_menu formats it
RECURSIVE str(_)
str(i) ==
    IF i < 10 THEN <<DigitChars[i + 1]>>
    ELSE str(i \div 10) \o <<DigitChars[(i % 10) + 1]>>

\* The text that int() parses after stripping: sign removed
int_body(s) ==
    LET t == strip(s)
    IN  IF t # <<>> /\ t[1] \in {"+", "-"} THEN Tail(t) ELSE t

\* int(s) raises ValueError unless s is an optionally signed run of digits,
\* surrounded by whitespace, with single underscores between digits
int_parses(s) ==
    LET b == int_body(s)
    IN  /\ b # <<>>
        /\ \A i \in 1..Len(b) :
              \/ IsDigit(b[i])
              \/ /\ b[i] = "_"
                 /\ 1 < i /\ i < Len(b)
                 /\ IsDigit(b[i - 1]) /\ IsDigit(b[i + 1])

RECURSIVE digits_value(_)
digits_value(b) ==
    IF b = <<>> THEN 0
    ELSE IF b[Len(b)] = "_" THEN digits_value(SubSeq(b, 1, Len(b) - 1))
    ELSE 10 * digits_value(SubSeq(b, 1, Len(b) - 1)) + DigitValue(b[Len(b)])

int(s) ==
    LET t == strip(s)
        v == digits_value(int_body(s))
    IN  IF startswith(t, "-") THEN 0 - v ELSE v

\* Code points of the characters the model uses below 128
AsciiTable ==
    ("\t" :> 9) @@ ("\n" :> 10) @@ (" " :> 32) @@ ("\"" :> 34) @@ ("'" :> 39) @@
    ("-" :> 45) @@ ("." :> 46) @@ ("a" :> 97) @@ ("b" :> 98) @@ ("c" :> 99) @@
    ("d" :> 100) @@ ("f" :> 102) @@ ("h" :> 104) @@ ("o" :> 111)

\* str.encode('utf-8') of one character
utf8_char(c) ==
    IF c = "é" THEN <<195, 169>> ELSE <<AsciiTable[c]>>

RECURSIVE encode_utf8(_)
encode_utf8(s) ==
    IF s = <<>> THEN <<>> ELSE utf8_char(s[1]) \o encode_utf8(Tail(s))

\* shlex.quote
SafeChars == {"a", "b", "c", "d", "f", "h", "o", "-", ".", "_", "/", "@", "%",
              "+", "=", ":", ","} \cup {DigitChars[d] : d \in 1..10}

RECURSIVE replace_quotes(_)
replace_quotes(s) ==
    IF s = <<>> THEN <<>>
    ELSE (IF s[1] = "'" THEN <<"'", "\"", "'", "\"", "'">> ELSE <<s[1]>>)
         \o replace_quotes(Tail(s))

shlex_quote(s) ==
    IF s = <<>> THEN <<"'", "'">>
    ELSE IF \A i \in 1..Len(s) : s[i] \in SafeChars THEN s
    ELSE <<"'">> \o replace_quotes(s) \o <<"'">>

-----------------------------------------------------------------------------
(* Menu items *)

NoItem == [cls |-> "None"]

BackMenuItem == [cls |-> "BackMenuItem"]

TerminalMenuItem_cmd(name, cmd) ==
    [cls |-> "TerminalMenuItem", name |-> name, cmd |-> cmd]

\* TerminalMenuItem(name): cmd defaults to name
TerminalMenuItem(name) == TerminalMenuItem_cmd(name, name)

ToggleHiddenMenuItem(cd_submenu) ==
    [cls |-> "ToggleHiddenMenuItem", cd_submenu |-> cd_submenu]

CdMenuItem == [cls |-> "CdMenuItem", name |-> <<"c", "d">>, show_hidden |-> FALSE]

QuitLabel == <<"(", "Q", "u", "i", "t", ")">>

GoBackLabel == <<"(", "G", "o", " ", "B", "a", "c", "k", ")">>

HideHiddenLabel == <<"(", "H", "i", "d", "e", " ", "H", "i", "d", "d", "e", "n", ")">>

ShowHiddenLabel == <<"(", "S", "h", "o", "w", " ", "H", "i", "d", "d", "e", "n", ")">>

\* A faulty get_name: the two labels swapped
BackMenuItem_get_name_swapped(stack) ==
    IF Len(stack) <= 1 THEN GoBackLabel ELSE QuitLabel

BackMenuItem_get_name(stack) ==
    IF Len(stack) <= 1 THEN QuitLabel ELSE GoBackLabel

ToggleHiddenMenuItem_get_name(submenu) ==
    IF submenu.show_hidden THEN HideHiddenLabel ELSE ShowHiddenLabel

\* item.get_name(), for the state (stack, hp) the item reads
get_name(item, stack, hp) ==
    CASE item.cls = "BackMenuItem" -> BackMenuItem_get_name(stack)
      [] item.cls = "ToggleHiddenMenuItem" ->
            ToggleHiddenMenuItem_get_name(hp[item.cd_submenu])
      [] OTHER -> item.name

-----------------------------------------------------------------------------
(* MmmState *)

NoMenu == 0

\* A faulty pop_menu: the whole stack is dropped
pop_menu_all(stack) == <<>>

pop_menu(stack) == SubSeq(stack, 1, Len(stack) - 1)

\* A faulty push_menu: the menu is inserted at the bottom
push_menu_below(stack, m) == <<m>> \o stack

push_menu(stack, m) == Append(stack, m)

\* A faulty get_menu: the first pushed menu instead of the last
get_menu_bottom(stack) == IF stack = <<>> THEN NoMenu ELSE stack[1]

get_menu(stack) == IF stack = <<>> THEN NoMenu ELSE stack[Len(stack)]

-----------------------------------------------------------------------------
(* Menu *)

Menu(items) == [cls |-> "Menu", menu_items |-> items]

\* menu_items[k] raises IndexError unless this holds
index_in_range(items, k) == 0 - Len(items) <= k /\ k < Len(items)

\* menu_items[k]: a negative k counts from the end
list_index(items, k) == IF k >= 0 THEN items[k + 1] ELSE items[Len(items) + k + 1]

\* The exception parse_selection raises on `input`, or "none"
parse_selection_exc(items, input) ==
    IF ~int_parses(input) THEN "ValueError"
    ELSE IF ~index_in_range(items, int(input)) THEN "IndexError"
    ELSE "none"

parse_selection(items, input) == list_index(items, int(input))

\* A faulty print_line: the index counts from 1
print_line_one_based(i, label) == str(i + 1) \o <<")", "\t">> \o label

print_line(i, label) == str(i) \o <<")", "\t">> \o label

\* The lines print_menu prints, index i (from 0) before the item at position i
print_menu(items, stack, hp) ==
    [i \in 1..Len(items) |-> print_line(i - 1, get_name(items[i], stack, hp))]

-----------------------------------------------------------------------------
(* CustomMenuLoader *)

NoPath == 0

FirstNewline(content) ==
    IF \E i \in 1..Len(content) : content[i] = "\n"
    THEN CHOOSE i \in 1..Len(content) :
            content[i] = "\n" /\ \A j \in 1..(i - 1) : content[j] # "\n"
    ELSE Len(content)

\* Iterating a text file: each line with its newline, the last one maybe without
RECURSIVE file_lines(_)
file_lines(content) ==
    IF content = <<>> THEN <<>>
    ELSE <<SubSeq(content, 1, FirstNewline(content))>>
         \o file_lines(SubSeq(content, FirstNewline(content) + 1, Len(content)))

\* A faulty load_menu_file: blank lines give no item
load_menu_file_skip_blank(content) ==
    LET kept == SelectSeq(file_lines(content), LAMBDA line : rstrip(line) # <<>>)
    IN  [i \in 1..Len(kept) |-> TerminalMenuItem(rstrip(kept[i]))]

\* A faulty load_menu_file: the lines are not stripped
load_menu_file_no_strip(content) ==
    [i \in 1..Len(file_lines(content)) |-> TerminalMenuItem(file_lines(content)[i])]

load_menu_file(content) ==
    [i \in 1..Len(file_lines(content)) |-> TerminalMenuItem(rstrip(file_lines(content)[i]))]

\* A faulty get_menu_file_path: the match farthest from the cwd
get_menu_file_path_farthest(chain) ==
    IF \E i \in 1..Len(chain) : chain[i].kind = "file"
    THEN CHOOSE i \in 1..Len(chain) :
            chain[i].kind = "file" /\ \A j \in (i + 1)..Len(chain) : chain[j].kind # "file"
    ELSE NoPath

\* The position in the chain cwd, parent, ... of the first .mmm-menufile that is a file
get_menu_file_path(chain) ==
    IF \E i \in 1..Len(chain) : chain[i].kind = "file"
    THEN CHOOSE i \in 1..Len(chain) :
            chain[i].kind = "file" /\ \A j \in 1..(i - 1) : chain[j].kind # "file"
    ELSE NoPath

load_custom_menu(chain) ==
    IF get_menu_file_path(chain) # NoPath
    THEN load_menu_file(chain[get_menu_file_path(chain)].content)
    ELSE <<>>

\* open() of the file found fails
load_custom_menu_raises(chain) ==
    get_menu_file_path(chain) # NoPath /\ ~chain[get_menu_file_path(chain)].readable

-----------------------------------------------------------------------------
(* CdSubmenu *)

\* A faulty is_valid_subdir: entries that are no directories pass
is_valid_subdir_any_entry(p, show_hidden) ==
    show_hidden \/ ~startswith(p.name, ".")

is_valid_subdir(p, show_hidden) ==
    p.is_dir /\ (show_hidden \/ ~startswith(p.name, "."))

RECURSIVE get_valid_subdirs(_, _)
get_valid_subdirs(entries, show_hidden) ==
    IF entries = <<>> THEN <<>>
    ELSE (IF is_valid_subdir(entries[1], show_hidden) THEN <<entries[1]>> ELSE <<>>)
         \o get_valid_subdirs(Tail(entries), show_hidden)

make_cd_menuitem(p) ==
    TerminalMenuItem_cmd(p.name, <<"c", "d", " ">> \o shlex_quote(p.name))

\* A faulty build_menu_items: the submenu offers a cd item of its own
build_menu_items_with_cd(self, show_hidden, entries) ==
    <<BackMenuItem, ToggleHiddenMenuItem(self), CdMenuItem>>
    \o [i \in 1..Len(get_valid_subdirs(entries, show_hidden)) |->
            make_cd_menuitem(get_valid_subdirs(entries, show_hidden)[i])]

build_menu_items(self, show_hidden, entries) ==
    <<BackMenuItem, ToggleHiddenMenuItem(self)>>
    \o [i \in 1..Len(get_valid_subdirs(entries, show_hidden)) |->
            make_cd_menuitem(get_valid_subdirs(entries, show_hidden)[i])]

\* A faulty CdSubmenu: constructed showing the hidden entries
CdSubmenu_shown(self, show_hidden, entries) ==
    [cls |-> "CdSubmenu", show_hidden |-> TRUE,
     menu_items |-> build_menu_items(self, TRUE, entries)]

\* CdSubmenu(state, show_hidden) constructed as the object `self`, refreshed
CdSubmenu(self, show_hidden, entries) ==
    [cls |-> "CdSubmenu", show_hidden |-> show_hidden,
     menu_items |-> build_menu_items(self, show_hidden, entries)]

refresh(self, submenu, entries) ==
    [submenu EXCEPT !.menu_items = build_menu_items(self, submenu.show_hidden, entries)]

\* A faulty toggle: the flag is flipped, the items are not rebuilt
toggle_without_refresh(self, submenu, entries) ==
    [submenu EXCEPT !.show_hidden = ~submenu.show_hidden]

\* ToggleHiddenMenuItem.do_action on the submenu `self`
toggle(self, submenu, entries) ==
    refresh(self, [submenu EXCEPT !.show_hidden = ~submenu.show_hidden], entries)

-----------------------------------------------------------------------------
(* InitialMenuBuilder *)

\* A faulty build_initial_menu: the cd item first, the back item last
build_initial_menu_cd_first(chain) ==
    Menu(<<CdMenuItem>> \o load_custom_menu(chain) \o <<BackMenuItem>>)

build_initial_menu(chain) ==
    Menu(<<BackMenuItem>> \o load_custom_menu(chain) \o <<CdMenuItem>>)

-----------------------------------------------------------------------------
(* The environment the program starts in *)

Absent == [kind |-> "absent"]

NotAFile == [kind |-> "dir"]

File(content) == [kind |-> "file", readable |-> TRUE, content |-> content]

UnreadableFile == [kind |-> "file", readable |-> FALSE, content |-> <<>>]

Dir(name) == [name |-> name, is_dir |-> TRUE]

NonDir(name) == [name |-> name, is_dir |-> FALSE]

FsChains == {
    <<Absent, Absent>>,
    <<File(<<"f", "o", "o", "\n">>)>>,
    <<NotAFile, File(<<"a", "\n", "\n", " ", "b", "\t", "\n">>), File(<<"c", "\n">>)>>,
    <<UnreadableFile, File(<<"a", "\n">>)>>,
    <<Absent, File(<<"é", "\n", "b">>), UnreadableFile>>,
    <<File([i \in 1..10 |-> "\n"])>> }

DirListings == {
    <<>>,
    <<Dir(<<"d">>), Dir(<<".", "h">>), NonDir(<<"f">>), NonDir(<<".", "f">>)>>,
    <<Dir(<<"a", " ", "b">>), Dir(<<"o", "'", "c">>), Dir(<<".", "é">>), Dir(<<"b", "\n">>)>> }

InputChars == {"0", "1", "2", "-", "x"}

FileChars == {"a", " ", "\t", "\n"}

Inputs == BoundedSeq(InputChars, MaxInputLen)

-----------------------------------------------------------------------------
(* MmmApplication.run *)

InitProgram ==
    /\ pc = "start"
    /\ menu_stack = <<>>
    /\ heap = <<>>
    /\ menu = NoMenu
    /\ selected_menu_item = NoItem
    /\ stdout = <<>>
    /\ tty = <<>>
    /\ exit_code = <<>>
    /\ exc = "none"

Init ==
    /\ InitProgram
    /\ fs \in FsChains
    /\ cwd_entries \in DirListings

\* A faulty exit: the exception is swallowed, exit status 0
Raise_swallowed(e) ==
    /\ pc' = "exited"
    /\ exc' = e
    /\ exit_code' = <<0>>

\* An uncaught exception: traceback, exit status 1
Raise(e) ==
    /\ pc' = "exited"
    /\ exc' = e
    /\ exit_code' = <<1>>

\* state = MmmState(); build_initial_menu; push_menu
Start ==
    /\ pc = "start"
    /\ IF load_custom_menu_raises(fs)
       THEN /\ Raise("PermissionError")
            /\ UNCHANGED <<menu_stack, heap>>
       ELSE /\ heap' = Append(heap, build_initial_menu(fs))
            /\ menu_stack' = push_menu(menu_stack, Len(heap) + 1)
            /\ pc' = "loop"
            /\ UNCHANGED <<exc, exit_code>>
    /\ UNCHANGED <<menu, selected_menu_item, stdout, tty, env>>

\* menu = state.get_menu(); break when there is none, else print_menu and prompt
LoopHead ==
    /\ pc = "loop"
    /\ menu' = get_menu(menu_stack)
    /\ IF menu' = NoMenu
       THEN /\ pc' = "exited"
            /\ exit_code' = <<0>>
            /\ UNCHANGED stdout
       ELSE /\ pc' = "input"
            /\ stdout' = print_menu(heap[menu'].menu_items, menu_stack, heap)
            /\ UNCHANGED exit_code
    /\ UNCHANGED <<menu_stack, heap, selected_menu_item, tty, exc, env>>

\* user_input = input('> ') reads `line`, a local that dies with the call;
\* selected_menu_item = parse_selection(user_input)
ReadSelection(line) ==
    /\ pc = "input"
    /\ IF parse_selection_exc(heap[menu].menu_items, line) # "none"
       THEN /\ Raise(parse_selection_exc(heap[menu].menu_items, line))
            /\ UNCHANGED selected_menu_item
       ELSE /\ selected_menu_item' = parse_selection(heap[menu].menu_items, line)
            /\ pc' = "action"
            /\ UNCHANGED <<exc, exit_code>>
    /\ UNCHANGED <<menu_stack, heap, menu, stdout, tty, env>>

\* input() at end of file
ReadEOF ==
    /\ pc = "input"
    /\ Raise("EOFError")
    /\ UNCHANGED <<menu_stack, heap, menu, selected_menu_item, stdout, tty, env>>

\* BackMenuItem.do_action
DoBack ==
    /\ pc = "action"
    /\ selected_menu_item.cls = "BackMenuItem"
    /\ menu_stack' = pop_menu(menu_stack)
    /\ pc' = "loop"
    /\ UNCHANGED <<heap, menu, selected_menu_item, stdout, tty, exit_code, exc, env>>

\* A faulty do_action: the newline is not appended
do_action_input_no_newline(cmd) == cmd

\* The text TerminalMenuItem.do_action hands to simulate_terminal_input
do_action_input(cmd) == cmd \o <<"\n">>

\* TerminalMenuItem.do_action: `sent` ioctls succeed; when that is not all of
\* them the next one raises OSError; otherwise quit() raises SystemExit
DoTerminal ==
    /\ pc = "action"
    /\ selected_menu_item.cls = "TerminalMenuItem"
    /\ LET input == do_action_input(selected_menu_item.cmd)
           binput == encode_utf8(input)
       IN  \E sent \in 0..Len(binput) :
           /\ tty' = tty \o SubSeq(binput, 1, sent)
           /\ IF sent < Len(binput)
              THEN /\ Raise("OSError")
                   /\ UNCHANGED stdout
              ELSE /\ stdout' = IF endswith(input, "\n") THEN stdout ELSE Append(stdout, <<>>)
                   /\ pc' = "exited"
                   /\ exc' = "SystemExit"
                   /\ exit_code' = <<0>>
    /\ UNCHANGED <<menu_stack, heap, menu, selected_menu_item, env>>

\* CdSubmenu.ToggleHiddenMenuItem.do_action
DoToggle ==
    /\ pc = "action"
    /\ selected_menu_item.cls = "ToggleHiddenMenuItem"
    /\ LET self == selected_menu_item.cd_submenu
       IN  heap' = [heap EXCEPT ![self] = toggle(self, heap[self], cwd_entries)]
    /\ pc' = "loop"
    /\ UNCHANGED <<menu_stack, menu, selected_menu_item, stdout, tty, exit_code, exc, env>>

\* CdMenuItem.do_action
DoCd ==
    /\ pc = "action"
    /\ selected_menu_item.cls = "CdMenuItem"
    /\ Len(heap) < MaxMenus
    /\ heap' = Append(heap, CdSubmenu(Len(heap) + 1, FALSE, cwd_entries))
    /\ menu_stack' = push_menu(menu_stack, Len(heap) + 1)
    /\ pc' = "loop"
    /\ UNCHANGED <<menu, selected_menu_item, stdout, tty, exit_code, exc, env>>

Next ==
    \/ Start
    \/ LoopHead
    \/ \E line \in Inputs : ReadSelection(line)
    \/ ReadEOF
    \/ DoBack
    \/ DoTerminal
    \/ DoToggle
    \/ DoCd

Spec == Init /\ [][Next]_vars

\* The loader on every small menu file, found in the current directory
InitLoad ==
    /\ InitProgram
    /\ \/ \E content \in BoundedSeq(FileChars, MaxFileLen) : fs = <<File(content)>>
       \/ fs \in FsChains
    /\ cwd_entries = <<Dir(<<"d">>)>>

SpecLoad == InitLoad /\ [][Next]_vars

\* What a directory of the chain can hold under the name .mmm-menufile
ChainEntries ==
    {Absent, NotAFile, File(<<"a", "\n">>), File(<<"b", "\n">>), UnreadableFile}

\* The discovery on every short chain of directories, the cwd first
InitFind ==
    /\ InitProgram
    /\ fs \in BoundedSeq(ChainEntries, MaxChainLen) \ {<<>>}
    /\ cwd_entries = <<>>

SpecFind == InitFind /\ [][Next]_vars

-----------------------------------------------------------------------------
(* Properties *)

Running == pc \in {"loop", "input", "action"}

Seeded == heap # <<>>

Top == menu_stack[Len(menu_stack)]

\* The label printed on line i of stdout, after "<index>)" and the tab
PrintedLabel(i) == SubSeq(stdout[i], Len(str(i - 1)) + 3, Len(stdout[i]))

\* A selection that is missing or invalid for a menu of these items
InvalidSelection(items, line) ==
    \/ ~int_parses(line)
    \/ int(line) < 0
    \/ int(line) >= Len(items)

\* C1: on an empty, non-numeric or out-of-range selection the engine neither
\* crashes nor terminates: no item is selected, the stack and the menus are
\* unchanged and the loop goes on to render and prompt the same menu again.
C1_InvalidSelectionReprompts ==
    [][\A line \in Inputs :
          (ReadSelection(line) /\ InvalidSelection(heap[menu].menu_items, line))
          => /\ pc' = "loop"
             /\ exit_code' = <<>>
             /\ exc' = "none"
             /\ selected_menu_item' = selected_menu_item
             /\ menu_stack' = menu_stack
             /\ heap' = heap]_vars

\* C2: an integer selection k resolves to the item at position k exactly when
\* 0 <= k < n; a negative k or k >= n is an out-of-range error that selects no
\* item and lets no action start.
C2_ResolveExactlyInRange ==
    [][\A line \in Inputs :
          (ReadSelection(line) /\ int_parses(line))
          => IF 0 <= int(line) /\ int(line) < Len(heap[menu].menu_items)
             THEN /\ selected_menu_item' = heap[menu].menu_items[int(line) + 1]
                  /\ pc' = "action"
             ELSE /\ selected_menu_item' = selected_menu_item
                  /\ pc' # "action"]_vars

FooCmd == <<"f", "o", "o">>

\* C3: executing a command item whose device operations all succeed injects
\* the bytes of cmd + "\n" in order (102 111 111 10 for "foo") and ends the
\* process with status 0; once the process has ended nothing is rendered, read
\* or changed any more.
C3_CommandInjectsThenExits ==
    [][/\ (pc = "action" /\ selected_menu_item.cls = "TerminalMenuItem" /\ exc' # "OSError")
          => /\ tty' = tty \o encode_utf8(selected_menu_item.cmd) \o <<10>>
             /\ pc' = "exited"
             /\ exit_code' = <<0>>
             /\ menu_stack' = menu_stack
             /\ stdout' = stdout
             /\ (selected_menu_item.cmd = FooCmd => tty' = <<102, 111, 111, 10>>)
       /\ pc # "exited"]_vars

C3_Witness ==
    /\ pc = "exited"
    /\ exc = "SystemExit"
    /\ exit_code = <<0>>
    /\ selected_menu_item = TerminalMenuItem(FooCmd)
    /\ tty = <<102, 111, 111, 10>>

\* C4: the back item at depth 1 empties the stack, and the loop then exits
\* with status 0 without printing or prompting; at depth > 1 it removes only
\* the top menu, the engine keeps running, and the next iteration renders the
\* menu that was directly below.
C4_BackPopsOrTerminates ==
    [][/\ (pc = "action" /\ selected_menu_item.cls = "BackMenuItem")
          => /\ Len(menu_stack') = Len(menu_stack) - 1
             /\ \A i \in 1..Len(menu_stack') : menu_stack'[i] = menu_stack[i]
             /\ heap' = heap
             /\ pc' = "loop"
             /\ exit_code' = <<>>
       /\ (pc = "loop" /\ menu_stack = <<>>)
          => /\ pc' = "exited"
             /\ exit_code' = <<0>>
             /\ exc' = "none"
             /\ stdout' = stdout
       /\ (pc = "loop" /\ menu_stack # <<>>)
          => /\ pc' = "input"
             /\ menu' = Top
             /\ Len(stdout') = Len(heap[Top].menu_items)
             /\ exit_code' = <<>>]_vars

\* Reached by cd, back (depth 2 to 1), back (depth 1 to 0) and the loop's exit
C4_Witness ==
    /\ pc = "exited"
    /\ exc = "none"
    /\ exit_code = <<0>>
    /\ menu_stack = <<>>
    /\ Len(heap) >= 2

\* C5: once the root menu is seeded, whenever a menu has been rendered and a
\* selection is awaited or an action starts, the stack is non-empty and the
\* rendered menu is its top; the stack is empty only after the back item
\* popped the last menu, and then the loop exits normally.
C5_StackNonEmptyWhileRunning ==
    /\ pc \in {"input", "action"}
       => /\ Len(menu_stack) >= 1
          /\ menu = Top
          /\ Len(stdout) = Len(heap[Top].menu_items)
    /\ (pc = "loop" /\ Seeded /\ selected_menu_item = NoItem) => menu_stack # <<>>
    /\ (Seeded /\ menu_stack = <<>>)
       => /\ selected_menu_item = BackMenuItem
          /\ pc \in {"loop", "exited"}
          /\ pc = "exited" => (exc = "none" /\ exit_code = <<0>>)

C5_Witness ==
    /\ pc = "action"
    /\ Len(menu_stack) = 2
    /\ menu = Top
    /\ selected_menu_item.cls = "TerminalMenuItem"

\* C6: the back item of the rendered menu, at index 0, shows "(Quit)" when the
\* depth is <= 1 and "(Go Back)" otherwise: "(Quit)" exactly when popping
\* empties the stack, "(Go Back)" exactly when a menu remains.
C6_BackLabelTellsQuit ==
    pc = "input"
    => /\ heap[menu].menu_items[1] = BackMenuItem
       /\ stdout[1] = <<"0", ")", "\t">> \o PrintedLabel(1)
       /\ PrintedLabel(1) = (IF Len(menu_stack) <= 1 THEN QuitLabel ELSE GoBackLabel)
       /\ PrintedLabel(1) = QuitLabel <=> Len(menu_stack) - 1 = 0
       /\ PrintedLabel(1) = GoBackLabel <=> Len(menu_stack) - 1 > 0

C6_Witness ==
    /\ pc = "input"
    /\ Len(menu_stack) = 2
    /\ stdout[1] = <<"0", ")", "\t">> \o GoBackLabel

\* The number of entries a directory submenu lists under the flag
NumListed(show_hidden) ==
    Cardinality({i \in 1..Len(cwd_entries) :
                    /\ cwd_entries[i].is_dir
                    /\ show_hidden \/ cwd_entries[i].name[1] # "."})

\* C7: the toggle item flips the flag of its submenu, which is the current
\* menu, and rebuilds that menu's items in place: the stack and every other
\* menu are unchanged, and the next render shows the label and the entries of
\* the new flag value.
C7_ToggleRebuildsInPlace ==
    [][/\ (pc = "action" /\ selected_menu_item.cls = "ToggleHiddenMenuItem")
          => /\ selected_menu_item.cd_submenu = Top
             /\ heap'[Top].show_hidden = ~heap[Top].show_hidden
             /\ heap'[Top].cls = "CdSubmenu"
             /\ Len(heap'[Top].menu_items) = 2 + NumListed(heap'[Top].show_hidden)
             /\ menu_stack' = menu_stack
             /\ Len(heap') = Len(heap)
             /\ \A m \in 1..Len(heap) : m # Top => heap'[m] = heap[m]
             /\ pc' = "loop"
       /\ (pc = "loop" /\ menu_stack # <<>> /\ heap[Top].cls = "CdSubmenu")
          => /\ pc' = "input"
             /\ menu' = Top
             /\ Len(stdout') = 2 + NumListed(heap[Top].show_hidden)
             /\ stdout'[2] = <<"1", ")", "\t">>
                    \o (IF heap[Top].show_hidden THEN HideHiddenLabel ELSE ShowHiddenLabel)]_vars

C7_Witness ==
    /\ pc = "input"
    /\ Len(menu_stack) = 2
    /\ heap[menu].show_hidden
    /\ stdout[2] = <<"1", ")", "\t">> \o HideHiddenLabel
    /\ Len(stdout) = 4
    /\ NumListed(FALSE) = 1

\* C8: a push puts a new menu on top and touches nothing below, a toggle keeps
\* the stack, a pop removes exactly the top and changes no menu, and the root
\* menu and its items never change: after cd, any toggles and back, the stack
\* is again the root menu alone, with the items it was built with.
C8_PushPopRoundTrip ==
    [][/\ (pc = "action" /\ selected_menu_item.cls = "CdMenuItem")
          => /\ Len(menu_stack') = Len(menu_stack) + 1
             /\ \A i \in 1..Len(menu_stack) : menu_stack'[i] = menu_stack[i]
             /\ \A i \in 1..Len(menu_stack) : menu_stack'[Len(menu_stack')] # menu_stack[i]
             /\ \A m \in 1..Len(heap) : heap'[m] = heap[m]
       /\ (pc = "action" /\ selected_menu_item.cls = "BackMenuItem")
          => /\ menu_stack = menu_stack' \o <<Top>>
             /\ heap' = heap
       /\ (Seeded /\ menu_stack' # <<>>)
          => /\ menu_stack'[1] = menu_stack[1]
             /\ heap'[menu_stack[1]] = heap[menu_stack[1]]
       /\ (Seeded /\ Len(menu_stack) = 2 /\ Len(menu_stack') = 1 /\ pc' = "loop")
          => /\ heap'[menu_stack'[1]].cls = "Menu"
             /\ heap'[menu_stack'[1]].menu_items = build_initial_menu(fs).menu_items]_vars

\* The root menu is current again after cd, toggle and back
C8_Witness ==
    /\ pc = "input"
    /\ menu_stack = <<1>>
    /\ menu = 1
    /\ Len(heap) >= 2
    /\ heap[2].show_hidden
    /\ heap[1] = build_initial_menu(fs)

\* The menu file the loader reads
MenuFileContent == fs[get_menu_file_path(fs)].content

NewlinePositions(content) == {p \in 1..Len(content) : content[p] = "\n"}

\* The number of lines of a text: one per newline, and one for a last line
\* that no newline ends
NumLines(content) ==
    Cardinality(NewlinePositions(content))
    + (IF content # <<>> /\ content[Len(content)] # "\n" THEN 1 ELSE 0)

\* Where line i starts: after the newline that ends line i - 1
LineStart(content, i) ==
    IF i = 1 THEN 1
    ELSE 1 + CHOOSE p \in NewlinePositions(content) :
                Cardinality({q \in NewlinePositions(content) : q <= p}) = i - 1

IsPrefixAt(name, content, start) ==
    /\ start + Len(name) - 1 <= Len(content)
    /\ \A j \in 1..Len(name) : content[start + j - 1] = name[j]

\* C9: for a menu file of k lines the root menu is the back item at index 0,
\* then exactly k command items in file order, one per line, a blank line giving
\* an item with empty label and empty command.
C9_RootMenuFromFile ==
    (Seeded /\ get_menu_file_path(fs) # NoPath)
    => LET items == heap[1].menu_items
           k == NumLines(MenuFileContent)
       IN  /\ items[1] = BackMenuItem
           /\ Len(items) = k + 2
           /\ \A i \in 1..k :
                 /\ items[i + 1].cls = "TerminalMenuItem"
                 /\ IsPrefixAt(items[i + 1].name, MenuFileContent, LineStart(MenuFileContent, i))
                 /\ MenuFileContent[LineStart(MenuFileContent, i)] = "\n"
                    => (items[i + 1].name = <<>> /\ items[i + 1].cmd = <<>>)
           /\ \A i \in 1..Len(items) : items[i].cls = "TerminalMenuItem" => i \in 2..(k + 1)

\* Two non-empty lines and a blank one: three custom items after the back item
C9_Witness ==
    /\ pc = "input"
    /\ get_menu_file_path(fs) # NoPath
    /\ MenuFileContent = <<"a", "\n", "\n", " ", "b", "\t", "\n">>
    /\ Len(stdout) = 5
    /\ heap[1].menu_items[1] = BackMenuItem
    /\ heap[1].menu_items[3] = TerminalMenuItem(<<>>)
    /\ Cardinality({i \in 1..5 : heap[1].menu_items[i].cls = "TerminalMenuItem"}) = 3

\* A line without the newline that ends it
WithoutNewline(line) ==
    IF line # <<>> /\ line[Len(line)] = "\n" THEN SubSeq(line, 1, Len(line) - 1) ELSE line

\* C10, as claimed: label and command of the item of each line are the line
\* with only its trailing newline removed, trailing spaces and tabs preserved.
C10_OnlyNewlineRemoved ==
    (Seeded /\ get_menu_file_path(fs) # NoPath)
    => \A i \in 1..Len(file_lines(MenuFileContent)) :
          /\ heap[1].menu_items[i + 1].name = WithoutNewline(file_lines(MenuFileContent)[i])
          /\ heap[1].menu_items[i + 1].cmd = WithoutNewline(file_lines(MenuFileContent)[i])

\* C10, amended: label and command of the item of each line are both the line
\* with all its trailing whitespace (newline, spaces, tabs) removed; every
\* character before that is preserved.
C10_TrailingWhitespaceRemoved ==
    (Seeded /\ get_menu_file_path(fs) # NoPath)
    => \A i \in 1..Len(file_lines(MenuFileContent)) :
          LET line == file_lines(MenuFileContent)[i]
              item == heap[1].menu_items[i + 1]
          IN  /\ item.cmd = item.name
              /\ Len(item.name) <= Len(line)
              /\ \A j \in 1..Len(item.name) : item.name[j] = line[j]
              /\ \A j \in (Len(item.name) + 1)..Len(line) : line[j] \in Whitespace
              /\ item.name # <<>> => item.name[Len(item.name)] \notin Whitespace

\* A label that kept a character before the whitespace stripped from its line
C10_Witness ==
    /\ pc = "input"
    /\ fs = <<File(<<"a", " ", "\n">>)>>
    /\ heap[1].menu_items[2] = TerminalMenuItem(<<"a">>)

\* The command items of every menu constructed so far
CommandItems ==
    UNION {{heap[m].menu_items[i] :
                i \in {j \in 1..Len(heap[m].menu_items) :
                          heap[m].menu_items[j].cls = "TerminalMenuItem"}} :
           m \in 1..Len(heap)}

\* C11: the text forwarded to the terminal is the command terminated by a
\* single newline: no command item ends in a newline, the one newline appended
\* is the last byte injected, and the injected text never ends in two newlines.
C11_SingleTrailingNewline ==
    /\ \A item \in CommandItems : ~endswith(item.cmd, "\n")
    /\ (pc = "exited" /\ exc = "SystemExit")
       => /\ tty = encode_utf8(selected_menu_item.cmd) \o <<10>>
          /\ tty[Len(tty)] = 10
          /\ Len(tty) >= 2 => tty[Len(tty) - 1] # 10

\* cd 'b<newline>' injected for a directory whose name ends in a newline
C11_Witness ==
    /\ pc = "exited"
    /\ exc = "SystemExit"
    /\ selected_menu_item.name = <<"b", "\n">>
    /\ tty = <<99, 100, 32, 39, 98, 10, 39, 10>>

\* The items of the root menu between the back item and the cd item
CustomItems == SubSeq(heap[1].menu_items, 2, Len(heap[1].menu_items) - 1)

\* C12: discovery returns the menu file of the nearest directory of the chain
\* cwd, parent, ... that has one as a regular file, and the root menu's custom
\* items are that file's; when no directory has one, nothing fails: the root
\* menu is built with zero custom items, rendered and prompted.
C12_NearestMenuFile ==
    pc # "start"
    => IF \E n \in 1..Len(fs) : fs[n].kind = "file"
       THEN \E n \in 1..Len(fs) :
               /\ fs[n].kind = "file"
               /\ \A j \in 1..(n - 1) : fs[j].kind # "file"
               /\ IF fs[n].readable
                  THEN /\ Seeded
                       /\ CustomItems = load_menu_file(fs[n].content)
                       /\ exc # "PermissionError"
                  ELSE /\ ~Seeded
                       /\ exc = "PermissionError"
       ELSE /\ Seeded
            /\ heap[1].menu_items = <<BackMenuItem, CdMenuItem>>
            /\ exc # "PermissionError"
            /\ (pc = "input" /\ menu = 1) => Len(stdout) = 2
            /\ (pc = "loop" /\ selected_menu_item = NoItem) => menu_stack = <<1>>

\* The cwd's .mmm-menufile is a directory, the parent's and the grandparent's
\* are files: the parent's is loaded
C12_Witness ==
    /\ pc = "input"
    /\ fs = <<NotAFile, File(<<"a", "\n">>), File(<<"b", "\n">>)>>
    /\ heap[1].menu_items = <<BackMenuItem, TerminalMenuItem(<<"a">>), CdMenuItem>>
    /\ Len(stdout) = 3

\* C13: a device operation that fails on some byte is fatal: the process ends
\* with a non-zero status, the failing byte and the bytes after it are not
\* injected, nothing is retried, and nothing is rendered, read or changed
\* afterwards.
C13_InjectionFailureIsFatal ==
    [][/\ (pc = "action" /\ selected_menu_item.cls = "TerminalMenuItem" /\ exc' = "OSError")
          => /\ pc' = "exited"
             /\ exit_code' # <<>> /\ exit_code' # <<0>>
             /\ tty = <<>>
             /\ \E n \in 0..(Len(encode_utf8(selected_menu_item.cmd \o <<"\n">>)) - 1) :
                   tty' = SubSeq(encode_utf8(selected_menu_item.cmd \o <<"\n">>), 1, n)
             /\ stdout' = stdout
             /\ menu_stack' = menu_stack
             /\ heap' = heap
       /\ exc' = "OSError" => (pc = "action" /\ selected_menu_item.cls = "TerminalMenuItem")
       /\ exc # "OSError"]_vars

\* The third ioctl of "foo\n" failed
C13_Witness ==
    /\ pc = "exited"
    /\ exc = "OSError"
    /\ exit_code = <<1>>
    /\ selected_menu_item = TerminalMenuItem(FooCmd)
    /\ tty = <<102, 111>>

\* The decimal numeral of an index below 100
Decimal(i) ==
    IF i < 10 THEN <<DigitChars[i + 1]>>
    ELSE <<DigitChars[(i \div 10) + 1], DigitChars[(i % 10) + 1]>>

\* The label an item shows in the current state
LabelOf(item) ==
    CASE item.cls = "BackMenuItem" ->
            (IF Len(menu_stack) <= 1 THEN QuitLabel ELSE GoBackLabel)
      [] item.cls = "ToggleHiddenMenuItem" ->
            (IF heap[item.cd_submenu].show_hidden THEN HideHiddenLabel ELSE ShowHiddenLabel)
      [] item.cls = "CdMenuItem" -> <<"c", "d">>
      [] item.cls = "TerminalMenuItem" -> item.name

\* C14: a rendered menu of n items is n lines, line i (from 0, in item order)
\* being the numeral of i, ")", a tab and the label of the item stored at
\* position i; for the items (Quit), foo, cd: "0)\t(Quit)", "1)\tfoo", "2)\tcd".
C14_RenderOneLinePerItem ==
    pc = "input"
    => /\ Len(stdout) = Len(heap[menu].menu_items)
       /\ \A i \in 1..Len(heap[menu].menu_items) :
             stdout[i] = Decimal(i - 1) \o <<")", "\t">> \o LabelOf(heap[menu].menu_items[i])
       /\ heap[menu].menu_items = <<BackMenuItem, TerminalMenuItem(FooCmd), CdMenuItem>>
          => stdout = << <<"0", ")", "\t", "(", "Q", "u", "i", "t", ")">>,
                         <<"1", ")", "\t", "f", "o", "o">>,
                         <<"2", ")", "\t", "c", "d">> >>

\* A root menu of twelve items: the last line is "11)\tcd"
C14_Witness ==
    /\ pc = "input"
    /\ Len(heap[menu].menu_items) = 12
    /\ Len(stdout) = 12
    /\ stdout[11] = <<"1", "0", ")", "\t">>
    /\ stdout[12] = <<"1", "1", ")", "\t", "c", "d">>

\* The names a directory submenu lists after its back and toggle items
ListedNames(m) == {heap[m].menu_items[i].name : i \in 3..Len(heap[m].menu_items)}

\* The names of the subdirectories of the cwd, the hidden ones only under the flag
SubdirNames(show_hidden) ==
    {cwd_entries[i].name :
        i \in {j \in 1..Len(cwd_entries) :
                 /\ cwd_entries[j].is_dir
                 /\ show_hidden \/ cwd_entries[j].name[1] # "."}}

\* C15: every directory submenu, as constructed and after every toggle, lists
\* exactly the immediate subdirectories of the cwd, once each and never an
\* entry that is no directory, those whose name starts with "." exactly when
\* its show-hidden flag is true.
C15_SubmenuListsSubdirs ==
    \A m \in 1..Len(heap) :
        heap[m].cls = "CdSubmenu"
        => /\ ListedNames(m) = SubdirNames(heap[m].show_hidden)
           /\ Len(heap[m].menu_items) = 2 + Cardinality(SubdirNames(heap[m].show_hidden))
           /\ \A i \in 3..Len(heap[m].menu_items) :
                 heap[m].menu_items[i].cls = "TerminalMenuItem"

\* After a toggle: d and .h are listed, the files f and .f are not
C15_Witness ==
    /\ pc = "input"
    /\ heap[menu].cls = "CdSubmenu"
    /\ heap[menu].show_hidden
    /\ cwd_entries = <<Dir(<<"d">>), Dir(<<".", "h">>), NonDir(<<"f">>), NonDir(<<".", "f">>)>>
    /\ ListedNames(menu) = {<<"d">>, <<".", "h">>}

\* C16: the stack never holds more than two menus: once the root menu is
\* seeded, only the cd item pushes, it is executed only with the root menu alone
\* on the stack, and a directory submenu holds a back item, a toggle item and
\* command items, never a cd item.
C16_DepthAtMostTwo ==
    [][/\ Len(menu_stack') <= 2
       /\ (Seeded /\ Len(menu_stack') > Len(menu_stack))
          => /\ pc = "action"
             /\ selected_menu_item.cls = "CdMenuItem"
             /\ Len(menu_stack) = 1
             /\ heap[menu_stack[1]].cls = "Menu"
             /\ heap'[menu_stack'[2]].cls = "CdSubmenu"
       /\ \A m \in 1..Len(heap') :
             heap'[m].cls = "CdSubmenu"
             => \A i \in 1..Len(heap'[m].menu_items) :
                   heap'[m].menu_items[i].cls
                       \in {"BackMenuItem", "ToggleHiddenMenuItem", "TerminalMenuItem"}]_vars

\* The directory submenu opened for the second time: the depth is 2 again
C16_Witness ==
    /\ pc = "input"
    /\ Len(heap) = 3
    /\ menu_stack = <<1, 3>>
    /\ menu = 3

\* C17: while the engine runs, index 0 of the current menu is a back item,
\* index 1 of a directory submenu is its own toggle item and the last item of
\* the root menu is the cd item; the selection "0" is always accepted and
\* resolves to the back item, whose action pops one menu of at most two, so
\* two selections of "0" at most end the program.
C17_ZeroIsAlwaysBack ==
    [][/\ (pc' \in {"loop", "input", "action"} /\ menu_stack' # <<>>)
          => LET top == menu_stack'[Len(menu_stack')]
             IN  /\ heap'[top].menu_items[1] = BackMenuItem
                 /\ heap'[top].cls = "CdSubmenu"
                    => heap'[top].menu_items[2] = ToggleHiddenMenuItem(top)
                 /\ heap'[top].cls = "Menu"
                    => heap'[top].menu_items[Len(heap'[top].menu_items)] = CdMenuItem
       /\ pc = "input" => ENABLED ReadSelection(<<"0">>)
       /\ ReadSelection(<<"0">>)
          => /\ selected_menu_item' = BackMenuItem
             /\ pc' = "action"
       /\ (pc = "action" /\ selected_menu_item = BackMenuItem)
          => /\ Len(menu_stack') = Len(menu_stack) - 1
             /\ pc' = "loop"
       /\ Len(menu_stack) <= 2
       /\ (pc = "loop" /\ menu_stack = <<>>) => (pc' = "exited" /\ exit_code' = <<0>>)]_vars

\* Ended by "0", "0" from a directory submenu that had been toggled
C17_Witness ==
    /\ pc = "exited"
    /\ exc = "none"
    /\ menu_stack = <<>>
    /\ selected_menu_item = BackMenuItem
    /\ Len(heap) >= 2
    /\ heap[2].show_hidden

\* C18: every execution of the cd item constructs a new directory submenu,
\* pushes it and goes on running; its show-hidden flag is false and it lists
\* no hidden entry, whatever flag the submenus opened before were left with.
C18_CdOpensFreshSubmenu ==
    [][/\ (pc = "action" /\ selected_menu_item.cls = "CdMenuItem")
          => /\ Len(heap') = Len(heap) + 1
             /\ \A m \in 1..Len(heap) : heap'[m] = heap[m]
             /\ menu_stack' = menu_stack \o <<Len(heap')>>
             /\ heap'[Len(heap')].cls = "CdSubmenu"
             /\ heap'[Len(heap')].show_hidden = FALSE
             /\ \A i \in 3..Len(heap'[Len(heap')].menu_items) :
                   heap'[Len(heap')].menu_items[i].name[1] # "."
             /\ pc' = "loop"
             /\ exit_code' = <<>>
       /\ (pc = "loop" /\ selected_menu_item.cls = "CdMenuItem")
          => /\ pc' = "input"
             /\ stdout'[2] = <<"1", ")", "\t">> \o ShowHiddenLabel]_vars

\* The second submenu does not show hidden entries although the first one,
\* toggled before going back, does
C18_Witness ==
    /\ pc = "input"
    /\ menu_stack = <<1, 3>>
    /\ heap[2].show_hidden
    /\ ~heap[3].show_hidden
    /\ \E i \in 1..Len(cwd_entries) : cwd_entries[i].is_dir /\ cwd_entries[i].name[1] = "."
    /\ Len(heap[3].menu_items) < Len(heap[2].menu_items)

====
